---- MODULE Spec2Model ----
(***************************************************************************)
(* Message gateway, agent runtime (ReAct loop), LLM client fallback and    *)
(* tool dispatcher of the restaurant-concierge agent.                      *)
(*                                                                         *)
(* One Turn is one run of AgentRuntime.handleMessage.  The JavaScript      *)
(* event loop is single threaded: every action below is the synchronous    *)
(* code that runs between two awaits of one Turn, and the interleaving of  *)
(* Turns is the interleaving of these actions.                             *)
(***************************************************************************)
EXTENDS Integers, Sequences, FiniteSets, TLC

\* --------------------------------------------------------------- bounds
\* Number of Gateway.routeMessage calls explored by the concurrent
\* specification.
MaxTurns == 2
MaxClock == 2
MaxDirectSends == 1
MaxPastTurns == 25
MaxAdminMessages == 1
MaxItems == 2

\* ------------------------------------------------------ program constants
maxToolCalls == 5
HistoryWindow == 10
HistoryCap == 50

errorMsg ==
    "I apologize, but I encountered an issue processing your request. Please try again or contact us directly."

\* JavaScript null / undefined.
NULL == "<null>"

SessionIds == {"wa_1", "wa_2"}
UserTexts == {"table for 2 tonight"}

\* LLM_PROVIDER values, one per branch of LLMClient.chat: the OpenAI
\* compatible providers, Anthropic, and Ollama (which has no fallback).
Providers == {"openrouter", "anthropic", "ollama"}

\* Channels registered with the gateway by main.
RegisteredChannels == {"whatsapp"}

\* ------------------------------------------------------------ tool catalogue
RegisteredTools ==
    {"get_business_info", "get_menu", "check_availability", "create_booking",
     "take_order", "get_directions", "handle_complaint", "collect_feedback",
     "escalate", "search_knowledge", "calculate_price"}

\* required fields of each tool's parameter schema
RequiredFields(name) ==
    CASE name = "get_business_info" -> {}
      [] name = "get_menu" -> {}
      [] name = "check_availability" -> {"date", "time", "guests"}
      [] name = "create_booking" -> {"date", "time", "guests", "name", "phone"}
      [] name = "take_order" -> {"items", "customerName", "customerPhone"}
      [] name = "get_directions" -> {}
      [] name = "handle_complaint" -> {"customerName", "issue", "urgency"}
      [] name = "collect_feedback" -> {"rating"}
      [] name = "escalate" -> {"reason"}
      [] name = "search_knowledge" -> {"query"}
      [] name = "calculate_price" -> {"items"}
      [] OTHER -> {}

\* required fields of an item of take_order's items array
OrderItemRequired == {"name", "quantity"}

\* args conform to the declared schema of a registered tool
Conforms(name, args) ==
    /\ name \in RegisteredTools
    /\ RequiredFields(name) \subseteq DOMAIN args
    /\ name = "take_order" =>
          \A i \in 1..Len(args.items) :
              /\ OrderItemRequired \subseteq DOMAIN args.items[i]
              /\ args.items[i].quantity \in Nat
              /\ "price" \in DOMAIN args.items[i] => args.items[i].price \in Nat

\* ------------------------------------------------------------ tool executor
\* The durable stores (data/orders/*.json) and the escalation notices.
EmptyStores ==
    [bookings |-> <<>>, orders |-> <<>>, complaints |-> <<>>, escalations |-> <<>>]

\* A thrown JavaScript error: its class name and its message.
Thrown(errName, msg) == [threw |-> TRUE, error |-> [name |-> errName, message |-> msg]]
Returned(result, st) == [threw |-> FALSE, result |-> result, stores |-> st]

\* saveBooking / saveOrder / saveComplaint: append to the file; a failing
\* file system call is caught and logged, the record is then not stored.
\* A file that has been written is read back intact by the next save.
SaveTo(st, store, rec, fsOk) ==
    IF fsOk THEN [st EXCEPT ![store] = Append(@, rec)] ELSE st

\* `BK-${Date.now()}` and its likes: the prefix and the clock's value
NewId(prefix, clk) == <<prefix, clk>>

\* unit price of an order item; reading .replace of an absent price raises
ItemHasPrice(item) == "price" \in DOMAIN item

RECURSIVE OrderItems(_)
OrderItems(items) ==
    IF items = <<>> THEN <<>>
    ELSE LET item == Head(items)
         IN  <<[name |-> item.name, quantity |-> item.quantity, price |-> item.price,
                total |-> item.price * item.quantity]>> \o OrderItems(Tail(items))

\* faulty variant of SumTotals: the quantities are left out
RECURSIVE SumOfPrices(_)
SumOfPrices(orderItems) ==
    IF orderItems = <<>> THEN 0
    ELSE Head(orderItems).price + SumOfPrices(Tail(orderItems))

RECURSIVE SumTotals(_)
SumTotals(orderItems) ==
    IF orderItems = <<>> THEN 0 ELSE Head(orderItems).total + SumTotals(Tail(orderItems))

takeOrder(args, st, fsOk, clk) ==
    IF \E i \in 1..Len(args.items) : ~ItemHasPrice(args.items[i])
    THEN Thrown("TypeError", "Cannot read properties of undefined (reading 'replace')")
    ELSE LET orderItems == OrderItems(args.items)
             order == [id |-> NewId("ORD", clk), items |-> orderItems,
                       total |-> SumTotals(orderItems),
                       customerName |-> args.customerName, status |-> "pending"]
         IN  Returned([success |-> TRUE, tool |-> "take_order", data |-> order],
                      SaveTo(st, "orders", order, fsOk))

createBooking(args, st, fsOk, clk) ==
    LET booking == [id |-> NewId("BK", clk), date |-> args.date, time |-> args.time, guests |-> args.guests,
                    name |-> args.name, status |-> "confirmed"]
    IN  Returned([success |-> TRUE, tool |-> "create_booking", data |-> booking],
                 SaveTo(st, "bookings", booking, fsOk))

escalate(args, st, clk) ==
    LET escalation == [id |-> NewId("ESC", clk), reason |-> args.reason,
                       status |-> "pending"]
    IN  Returned([success |-> TRUE, tool |-> "escalate", data |-> escalation],
                 [st EXCEPT !.escalations = Append(@, escalation)])

handleComplaint(args, st, fsOk, clk) ==
    LET urgency == IF "urgency" \in DOMAIN args THEN args.urgency ELSE "medium"
        complaint == [id |-> NewId("CMPL", clk),
                      customerName |-> args.customerName, issue |-> args.issue,
                      urgency |-> urgency, status |-> "open"]
        saved == SaveTo(st, "complaints", complaint, fsOk)
        response == [success |-> TRUE, tool |-> "handle_complaint", data |-> complaint,
                     message |-> IF urgency = "high" THEN "escalated to management"
                                 ELSE "logged your feedback"]
    IN  IF urgency = "high"
        THEN Returned(response, escalate([reason |-> args.issue], saved, clk).stores)
        ELSE Returned(response, saved)

collectFeedback(args, st) ==
    IF "rating" \in DOMAIN args /\ args.rating < 0
    THEN Thrown("RangeError", "Invalid count value")
    ELSE Returned([success |-> TRUE, tool |-> "collect_feedback"], st)

\* read-only tools: the canned success result
ReadOnly(name, st) == Returned([success |-> TRUE, tool |-> name], st)

UnknownToolError(toolName) == Thrown("Error", "Unknown tool")

\* ToolExecutor.execute: dispatch on the tool name
execute(toolName, args, st, fsOk, clk) ==
    CASE toolName = "get_business_info" -> ReadOnly(toolName, st)
      [] toolName = "get_menu" -> ReadOnly(toolName, st)
      [] toolName = "check_availability" -> ReadOnly(toolName, st)
      [] toolName = "create_booking" -> createBooking(args, st, fsOk, clk)
      [] toolName = "take_order" -> takeOrder(args, st, fsOk, clk)
      [] toolName = "get_directions" -> ReadOnly(toolName, st)
      [] toolName = "handle_complaint" -> handleComplaint(args, st, fsOk, clk)
      [] toolName = "collect_feedback" -> collectFeedback(args, st)
      [] toolName = "escalate" -> escalate(args, st, clk)
      [] toolName = "search_knowledge" -> ReadOnly(toolName, st)
      [] toolName = "calculate_price" -> ReadOnly(toolName, st)
      [] OTHER -> UnknownToolError(toolName)

\* ------------------------------------------------------------ LLM client
\* response.toolCalls is null or an array of tool calls
NullCalls == [isNull |-> TRUE, list |-> <<>>]
Calls(list) == [isNull |-> FALSE, list |-> list]

\* JavaScript truthiness of response.toolCalls: null is falsy, every array
\* (the empty one included) is truthy.
Truthy(toolCalls) == ~toolCalls.isNull

\* LLMClient._callOpenAI: content || '', tool_calls || null
callOpenAI(raw) ==
    [content |-> IF raw.content = NULL THEN "" ELSE raw.content,
     toolCalls |-> raw.tool_calls]

\* LLMClient._callAnthropic: the text blocks joined, the tool_use blocks
\* mapped to tool calls, null when there is none
callAnthropic(raw) ==
    [content |-> IF raw.content = NULL THEN "" ELSE raw.content,
     toolCalls |-> IF Len(raw.tool_calls.list) > 0 THEN Calls(raw.tool_calls.list)
                   ELSE NullCalls]

\* the primary request of LLMClient.chat
callPrimary(prov, raw) ==
    IF prov = "anthropic" THEN callAnthropic(raw) ELSE callOpenAI(raw)

\* the fallback request of LLMClient.chat (an OpenAI client on Ollama)
callFallback(raw) ==
    [content |-> IF raw.content = NULL THEN "" ELSE raw.content,
     toolCalls |-> raw.tool_calls]

\* faulty variant of FallbackConfigured: the fallback is tried whatever is configured
FallbackAlways(prov, baseUrl) == TRUE

\* LLMClient.chat: is the Ollama fallback tried after a failed request
FallbackConfigured(prov, baseUrl) == prov # "ollama" /\ baseUrl

\* ------------------------------------------------------------ model inputs
\* arguments of a tool call: a JSON text, well formed or not
Json(obj) == [wellFormed |-> TRUE, value |-> obj]
Malformed == [wellFormed |-> FALSE, value |-> [raw |-> "{\"category\": "]]

menuCall == [id |-> "call_m1", name |-> "get_menu", arguments |-> Json([category |-> "mains"])]
bookingCall ==
    [id |-> NULL, name |-> "create_booking",
     arguments |-> Json([date |-> "2026-01-05", time |-> "19:00", guests |-> 2,
                         name |-> "Jane", phone |-> "0821234567"])]
pricedOrderCall ==
    [id |-> "call_o1", name |-> "take_order",
     arguments |-> Json([items |-> <<[name |-> "butter chicken", quantity |-> 2, price |-> 95],
                                     [name |-> "garlic naan", quantity |-> 1, price |-> 25]>>,
                         customerName |-> "Jane", customerPhone |-> "0821234567"])]
unpricedOrderCall ==
    [id |-> "call_o2", name |-> "take_order",
     arguments |-> Json([items |-> <<[name |-> "garlic naan", quantity |-> 1]>>,
                         customerName |-> "Jane", customerPhone |-> "0821234567"])]
unknownCall == [id |-> "call_u1", name |-> "refund_order", arguments |-> Json([amount |-> 10])]
malformedCall == [id |-> "call_x1", name |-> "get_menu", arguments |-> Malformed]

ReplyTexts == {NULL, "Your table is booked. Anything else?"}

\* what the model may answer inside one Turn (single-Turn specification)
TurnCallLists ==
    {<<>>, <<menuCall>>, <<menuCall, bookingCall>>,
     <<unpricedOrderCall>>, <<unknownCall>>, <<malformedCall>>, <<menuCall, unknownCall>>}
TurnRaw ==
    [content : ReplyTexts, tool_calls : {NullCalls} \cup {Calls(l) : l \in TurnCallLists}]

\* what the model may answer in the concurrent specification
ConcCallLists == {<<menuCall>>}
ConcRaw ==
    [content : ReplyTexts, tool_calls : {NullCalls} \cup {Calls(l) : l \in ConcCallLists}]

\* Anthropic tool_use blocks carry an id and an input object, which
\* _callAnthropic serialises: their arguments are always well formed.
RawFor(prov, raws) ==
    IF prov = "anthropic"
    THEN {r \in raws : /\ ~r.tool_calls.isNull
                       /\ \A i \in 1..Len(r.tool_calls.list) :
                             /\ r.tool_calls.list[i].id # NULL
                             /\ r.tool_calls.list[i].arguments.wellFormed}
    ELSE raws

\* ------------------------------------------------------------------ state
VARIABLES
    provider,       \* LLMClient.provider
    ollamaBaseUrl,  \* is process.env.OLLAMA_BASE_URL set
    sessions,       \* Gateway.sessions: session id -> session
    conversations,  \* AgentRuntime.conversations: session id -> messages
    stores,         \* the durable stores written by the tools
    turns,          \* the runs of AgentRuntime.handleMessage
    routed,         \* number of Gateway.routeMessage calls so far
    now,            \* Date.now()
    direct,         \* the Gateway.sendResponse calls made from outside a Turn
    clients,        \* Gateway.clients: the connected observers
    admin           \* the admin:message events handled so far

vars == <<provider, ollamaBaseUrl, sessions, conversations, stores, turns, routed, now,
          direct, clients, admin>>

TurnIds == 1..MaxTurns

\* main passes a MemoryStore to the AgentRuntime
MemoryStoreConfigured == TRUE

NoError == [name |-> NULL, message |-> NULL]
NoExec == [called |-> FALSE]

\* a run of handleMessage that has not been started
IdleTurn ==
    [pc |-> "idle", sessionId |-> NULL, channelName |-> NULL, message |-> NULL,
     metadata |-> <<>>, senderPhone |-> FALSE, messages |-> <<>>, toolCalls |-> NullCalls, callIdx |-> 0,
     finalResponse |-> NULL, toolCallCount |-> 0, inLoop |-> FALSE,
     \* the tool in flight: the Date.now() its record's id is made of, and the
     \* array its save has parsed from the file
     calledAt |-> 0, fileRead |-> <<>>,
     \* history variables, read by the properties only
     llmCalls |-> 0, requests |-> 0, rounds |-> 0, replies |-> <<>>,
     caught |-> NoError, exec |-> NoExec, emitted |-> <<>>,
     sends |-> 0, sendFailed |-> FALSE]

Init ==
    /\ provider \in Providers
    /\ ollamaBaseUrl \in BOOLEAN
    /\ sessions = [s \in {} |-> NULL]
    /\ conversations = [s \in SessionIds |-> <<>>]
    /\ stores = EmptyStores
    /\ turns = [t \in TurnIds |-> IdleTurn]
    /\ routed = 0
    /\ now = 0
    /\ direct = <<>>
    /\ clients = [o \in {} |-> NULL]
    /\ admin = <<>>

\* ---------------------------------------------------------------- gateway
\* Gateway.routeMessage, lines 73-90: create or get the session, push the
\* user message
\* { channel: channelName, ...metadata }: the keys of both, metadata winning
Spread(channelName, metadata) ==
    [k \in {"channel"} \cup DOMAIN metadata |->
        IF k \in DOMAIN metadata THEN metadata[k] ELSE channelName]

\* metadata.senderName || null
SenderName(metadata) ==
    IF "senderName" \in DOMAIN metadata THEN metadata.senderName ELSE NULL

\* faulty variant of SessionForRoute: the session is built anew on every call
SessionForRouteRecreated(ss, channelName, sessionId, metadata, clk) ==
    [id |-> sessionId, messages |-> <<>>, metadata |-> Spread(channelName, metadata),
     lastActive |-> clk, customerName |-> SenderName(metadata), createdAt |-> clk]

\* Gateway.routeMessage, lines 73-84: the session of the map, created when
\* the map has none under this id
SessionForRoute(ss, channelName, sessionId, metadata, clk) ==
    IF sessionId \in DOMAIN ss THEN ss[sessionId]
    ELSE [id |-> sessionId, messages |-> <<>>,
          metadata |-> Spread(channelName, metadata),
          lastActive |-> clk, customerName |-> SenderName(metadata), createdAt |-> clk]

\* faulty variant of SessionsAfterRoute: the user message is not pushed
SessionsAfterRouteUnrecorded(ss, channelName, sessionId, message, metadata, clk, t) ==
    LET session == SessionForRoute(ss, channelName, sessionId, metadata, clk)
    IN  [x \in DOMAIN ss \cup {sessionId} |->
            IF x = sessionId THEN [session EXCEPT !.lastActive = clk] ELSE ss[x]]

SessionsAfterRoute(ss, channelName, sessionId, message, metadata, clk, t) ==
    LET session == SessionForRoute(ss, channelName, sessionId, metadata, clk)
        entry == [role |-> "user", content |-> message, timestamp |-> clk, turn |-> t]
    IN  [x \in DOMAIN ss \cup {sessionId} |->
            IF x = sessionId
            THEN [session EXCEPT !.lastActive = clk, !.messages = Append(@, entry)]
            ELSE ss[x]]

\* Gateway.sendResponse, lines 107-117: push the assistant message when the
\* session exists
\* faulty variant of SessionsAfterSend: the reply is pushed onto the log of
\* every session
SessionsAfterSendToAll(ss, sessionId, response, clk, t) ==
    [s \in DOMAIN ss |->
        [ss[s] EXCEPT !.messages =
            Append(@, [role |-> "assistant", content |-> response, timestamp |-> clk,
                       turn |-> t])]]

SessionsAfterSend(ss, sessionId, response, clk, t) ==
    IF sessionId \in DOMAIN ss
    THEN [ss EXCEPT ![sessionId].messages =
              Append(@, [role |-> "assistant", content |-> response, timestamp |-> clk,
                         turn |-> t])]
    ELSE ss

\* the events broadcast to the dashboard by routeMessage and sendResponse
IncomingEvent(channelName, sessionId, message) ==
    [type |-> "message:incoming", channel |-> channelName, sessionId |-> sessionId,
     content |-> message]

OutgoingEvent(channelName, sessionId, response) ==
    [type |-> "message:outgoing", channel |-> channelName, sessionId |-> sessionId,
     content |-> response]

\* Gateway.broadcast, lines 139-150: every client whose readyState is OPEN is
\* sent the event; a send that raises is caught and logged, and the client
\* stays in the set. Of what a client has been sent, the number of events and
\* the latest event are kept.
broadcast(cl, event) ==
    [o \in DOMAIN cl |->
        IF ~cl[o].open THEN cl[o]
        ELSE IF cl[o].raises THEN [cl[o] EXCEPT !.sendRaised = TRUE]
        ELSE [cl[o] EXCEPT !.received = @ + 1, !.last = event]]

\* faulty variant of sendResponse: without an adapter for the channel the
\* call returns at once, nothing is recorded and nothing is broadcast
sendResponseAdapterOnly(w, response, pcSending) ==
    IF w.tr.channelName \in RegisteredChannels
    THEN [w EXCEPT !.sessions = SessionsAfterSend(w.sessions, w.tr.sessionId, response,
                                                  w.now, w.t),
                   !.clients = broadcast(@, OutgoingEvent(w.tr.channelName, w.tr.sessionId,
                                                          response)),
                   !.tr.replies = Append(@, response),
                   !.tr.sends = @ + 1,
                   !.tr.pc = pcSending]
    ELSE [w EXCEPT !.tr.replies = Append(@, response), !.tr.pc = "done"]

\* Gateway.sendResponse called by Turn w.t: the message is recorded, then the
\* adapter's send is awaited when the channel has an adapter
sendResponse(w, response, pcSending) ==
    [w EXCEPT !.sessions = SessionsAfterSend(w.sessions, w.tr.sessionId, response, w.now,
                                             w.t),
              !.clients = broadcast(@, OutgoingEvent(w.tr.channelName, w.tr.sessionId,
                                                     response)),
              !.tr.replies = Append(@, response),
              !.tr.sends = IF w.tr.channelName \in RegisteredChannels THEN @ + 1 ELSE @,
              !.tr.pc = IF w.tr.channelName \in RegisteredChannels THEN pcSending
                        ELSE "done"]

\* ------------------------------------------------------------ agent runtime
\* AgentRuntime.getConversationHistory: the last 10 messages, role and content
LastN(seq, n) == IF Len(seq) <= n THEN seq ELSE SubSeq(seq, Len(seq) - n + 1, Len(seq))

\* faulty variant of getConversationHistory: the whole history is returned
getConversationHistoryUnbounded(conv, sessionId) ==
    [i \in 1..Len(conv[sessionId]) |->
        [role |-> conv[sessionId][i].role, content |-> conv[sessionId][i].content]]

getConversationHistory(conv, sessionId) ==
    LET msgs == LastN(conv[sessionId], HistoryWindow)
    IN  [i \in 1..Len(msgs) |-> [role |-> msgs[i].role, content |-> msgs[i].content]]

\* faulty variant of saveToHistory: one message fewer is kept
saveToHistoryOddCap(conv, sessionId, userMessage, assistantMessage) ==
    [conv EXCEPT ![sessionId] =
        LastN(@ \o <<[role |-> "user", content |-> userMessage],
                     [role |-> "assistant", content |-> assistantMessage]>>, HistoryCap - 1)]

\* AgentRuntime.saveToHistory: push the exchange, keep the last 50 messages
saveToHistory(conv, sessionId, userMessage, assistantMessage) ==
    [conv EXCEPT ![sessionId] =
        LastN(@ \o <<[role |-> "user", content |-> userMessage],
                     [role |-> "assistant", content |-> assistantMessage]>>, HistoryCap)]

\* faulty variant of catch: the error's own message is sent to the customer
catchWithDetail(w, err) ==
    sendResponse([w EXCEPT !.tr.caught = err], err.message, "awaitSendErr")

\* faulty variant of catch: the records stored during the Turn are removed
catchWithRollback(w, err) ==
    sendResponse([w EXCEPT !.tr.caught = err, !.stores = EmptyStores], errorMsg,
                 "awaitSendErr")

\* faulty variant of catch: the error is swallowed and nothing is sent
catchSilent(w, err) == [w EXCEPT !.tr.caught = err, !.tr.pc = "done"]

\* handleMessage, lines 181-185: the catch block
catch(w, err) ==
    sendResponse([w EXCEPT !.tr.caught = err], errorMsg, "awaitSendErr")

\* handleMessage, lines 167-179: save, learn, send
finalize(w) ==
    LET saved == [w EXCEPT !.conversations =
                     saveToHistory(w.conversations, w.tr.sessionId, w.tr.message,
                                   w.tr.finalResponse)]
    IN  IF MemoryStoreConfigured /\ w.tr.senderPhone
        THEN [saved EXCEPT !.tr.pc = "awaitLearn"]
        ELSE sendResponse(saved, w.tr.finalResponse, "awaitSend")

\* handleMessage, line 161: the next llm.chat call, which issues the primary
\* provider request
callChat(w) ==
    [w EXCEPT !.tr.pc = "awaitPrimary", !.tr.llmCalls = @ + 1, !.tr.requests = 1]

\* faulty variant of runFor: after the last tool call the Turn is finalized
\* without asking the model again
runForSkippingModel(w) ==
    IF w.tr.callIdx > Len(w.tr.toolCalls.list) THEN finalize(w)
    ELSE IF ~w.tr.toolCalls.list[w.tr.callIdx].arguments.wellFormed
         THEN catch(w, [name |-> "SyntaxError", message |-> "Unexpected end of JSON input"])
         ELSE [w EXCEPT !.tr.pc = "awaitTool", !.tr.calledAt = w.now]

\* handleMessage, lines 138-145: the tool call at callIdx is parsed and its
\* execution started; after the last one the model is asked again
runFor(w) ==
    IF w.tr.callIdx > Len(w.tr.toolCalls.list) THEN callChat(w)
    ELSE IF ~w.tr.toolCalls.list[w.tr.callIdx].arguments.wellFormed
         THEN catch(w, [name |-> "SyntaxError", message |-> "Unexpected end of JSON input"])
         ELSE [w EXCEPT !.tr.pc = "awaitTool", !.tr.calledAt = w.now]

\* faulty variants of LoopCondition: the bound is off by one; there is no bound
LoopConditionInclusive(tr) == Truthy(tr.toolCalls) /\ tr.toolCallCount <= maxToolCalls
LoopConditionUnbounded(tr) == Truthy(tr.toolCalls)

\* handleMessage, line 136: the loop condition
LoopCondition(tr) == Truthy(tr.toolCalls) /\ tr.toolCallCount < maxToolCalls

runLoop(w) ==
    IF LoopCondition(w.tr)
    THEN runFor([w EXCEPT !.tr.callIdx = 1, !.tr.rounds = @ + 1])
    ELSE finalize(w)

\* handleMessage, lines 130-134 and 161-164: a llm.chat call has returned
afterChat(w, response) ==
    IF ~w.tr.inLoop
    THEN runLoop([w EXCEPT !.tr.finalResponse = response.content,
                           !.tr.toolCalls = response.toolCalls,
                           !.tr.toolCallCount = 0,
                           !.tr.inLoop = TRUE,
                           !.tr.emitted = @ \o response.toolCalls.list])
    ELSE runLoop([w EXCEPT !.tr.finalResponse = response.content,
                           !.tr.toolCalls = response.toolCalls,
                           !.tr.toolCallCount = @ + 1,
                           !.tr.emitted = @ \o response.toolCalls.list])

\* ---------------------------------------------------------------- actions
World(t) ==
    [t |-> t, tr |-> turns[t], sessions |-> sessions, conversations |-> conversations,
     stores |-> stores, clients |-> clients, now |-> now]

\* handleMessage has returned: its local variables are gone; of the history
\* variables the texts handed to Gateway.sendResponse are kept
Settle(tr) ==
    IF tr.pc = "done"
    THEN [IdleTurn EXCEPT !.pc = "done", !.sessionId = tr.sessionId,
                          !.channelName = tr.channelName, !.message = tr.message,
                          !.metadata = tr.metadata,
                          !.senderPhone = tr.senderPhone, !.replies = tr.replies,
                          !.sends = tr.sends]
    ELSE tr

\* faulty variant of CommitTurn: the local variables of handleMessage are
\* kept in the runtime and shared by all its runs
CommitTurnShared(w) ==
    /\ turns' = [u \in TurnIds |-> Settle(w.tr)]
    /\ sessions' = w.sessions
    /\ conversations' = w.conversations
    /\ stores' = w.stores
    /\ clients' = w.clients

CommitTurn(w) ==
    /\ turns' = [turns EXCEPT ![w.t] = Settle(w.tr)]
    /\ sessions' = w.sessions
    /\ conversations' = w.conversations
    /\ stores' = w.stores
    /\ clients' = w.clients

Commit(w) ==
    /\ CommitTurn(w)
    /\ UNCHANGED <<provider, ollamaBaseUrl, now, direct, admin>>

SystemMessage == [role |-> "system", content |-> "systemPrompt"]

\* handleMessage, lines 107-130: Composing, up to the first llm.chat call
compose(w, channelName, sessionId, message, metadata) ==
    LET history == getConversationHistory(w.conversations, sessionId)
    IN  callChat([w EXCEPT !.tr.sessionId = sessionId,
                           !.tr.channelName = channelName,
                           !.tr.message = message,
                           !.tr.metadata = metadata,
                           !.tr.senderPhone = "senderPhone" \in DOMAIN metadata,
                           !.tr.messages = <<SystemMessage>> \o history \o
                                           <<[role |-> "user", content |-> message]>>])

\* WhatsAppChannel.handleIncomingMessage -> Gateway.routeMessage, whose emit
\* runs handleMessage synchronously up to its first await.
routeMessage(t, channelName, sessionId, message, metadata) ==
    /\ routed' = routed + 1
    /\ Commit(compose([World(t) EXCEPT
                          !.sessions = SessionsAfterRoute(sessions, channelName, sessionId,
                                                          message, metadata, now, t),
                          !.clients = broadcast(clients, IncomingEvent(channelName,
                                                                       sessionId, message))],
                      channelName, sessionId, message, metadata))

\* the run of handleMessage that the next event starts
FreshTurn(t) ==
    /\ turns[t].pc = "idle"
    /\ \A u \in TurnIds : u < t => turns[u].pc # "idle"

\* WhatsAppChannel.handleIncomingMessage, lines 88-97: the session id is
\* wa_<sender> and the metadata names the sender
WhatsAppMetadata(sessionId) ==
    LET sender == IF sessionId = "wa_1" THEN "1" ELSE "2"
    IN  [senderName |-> sender, senderPhone |-> sender, platform |-> "whatsapp"]

RouteMessage(t, sessionId, message) ==
    /\ FreshTurn(t)
    /\ routeMessage(t, "whatsapp", sessionId, message, WhatsAppMetadata(sessionId))

ProviderError == [name |-> "APIError", message |-> "provider request failed"]

\* the primary provider request of LLMClient.chat answers
PrimaryReturns(t, raws) ==
    /\ turns[t].pc = "awaitPrimary"
    /\ \E raw \in RawFor(provider, raws) :
          Commit(afterChat(World(t), callPrimary(provider, raw)))
    /\ UNCHANGED routed

\* the primary provider request fails: LLMClient.chat, lines 84-114
PrimaryFails(t) ==
    /\ turns[t].pc = "awaitPrimary"
    /\ IF FallbackConfigured(provider, ollamaBaseUrl)
       THEN Commit([World(t) EXCEPT !.tr.pc = "awaitFallback", !.tr.requests = @ + 1])
       ELSE Commit(catch(World(t), ProviderError))
    /\ UNCHANGED routed

\* the fallback request answers: LLMClient.chat, lines 104-108
FallbackReturns(t, raws) ==
    /\ turns[t].pc = "awaitFallback"
    /\ \E raw \in raws : Commit(afterChat(World(t), callFallback(raw)))
    /\ UNCHANGED routed

\* the fallback request fails: LLMClient.chat, lines 109-114
FallbackFails(t) ==
    /\ turns[t].pc = "awaitFallback"
    /\ Commit(catch(World(t), ProviderError))
    /\ UNCHANGED routed

\* tool_call_id of the tool message: toolCall.id || `call_${toolName}`
DerivedId(toolName) ==
    CASE toolName = "get_menu" -> "call_get_menu"
      [] toolName = "create_booking" -> "call_create_booking"
      [] toolName = "take_order" -> "call_take_order"
      [] toolName = "refund_order" -> "call_refund_order"
      [] OTHER -> "call_"

ToolCallId(toolCall) == IF toolCall.id = NULL THEN DerivedId(toolCall.name) ELSE toolCall.id

\* faulty variant of NextCall: every other tool call is passed over
NextCallSkipping(idx) == idx + 2

\* handleMessage, line 138: for...of takes the tool calls in array order
NextCall(idx) == idx + 1

\* faulty variant of ToolMessages: the tool result is not pushed
ToolMessagesWithoutResult(toolCall, result) ==
    <<[role |-> "assistant", content |-> NULL, tool_calls |-> <<toolCall>>]>>

\* handleMessage, lines 148-157: the assistant message holding the tool call
\* and the tool message holding its result
ToolMessages(toolCall, result) ==
    <<[role |-> "assistant", content |-> NULL, tool_calls |-> <<toolCall>>],
      [role |-> "tool", tool_call_id |-> ToolCallId(toolCall), content |-> result]>>

\* handleMessage, lines 145-157: tools.execute has settled. The save of a
\* side-effecting tool is taken as one step here, which is exact while no
\* other save is in flight; FileRead and FileWritten take it apart.
ToolReturns(t) ==
    /\ turns[t].pc = "awaitTool"
    /\ \E fsOk \in BOOLEAN :
          LET w == World(t)
              toolCall == w.tr.toolCalls.list[w.tr.callIdx]
              toolArgs == toolCall.arguments.value
              out == execute(toolCall.name, toolArgs, stores, fsOk, w.tr.calledAt)
              ran == [called |-> TRUE, name |-> toolCall.name, args |-> toolArgs,
                      threw |-> out.threw,
                      error |-> IF out.threw THEN out.error ELSE NoError,
                      wrote |-> IF out.threw THEN FALSE ELSE out.stores # stores]
          IN  IF out.threw
              THEN Commit(catch([w EXCEPT !.tr.exec = ran], out.error))
              ELSE Commit(runFor(
                     [w EXCEPT !.stores = out.stores,
                               !.tr.exec = ran,
                               !.tr.callIdx = NextCall(@),
                               !.tr.messages = @ \o ToolMessages(toolCall, out.result)]))
    /\ UNCHANGED routed

\* memoryStore.learnFromConversation has returned: handleMessage, lines 172-179
LearnReturns(t) ==
    /\ turns[t].pc = "awaitLearn"
    /\ Commit(sendResponse(World(t), turns[t].finalResponse, "awaitSend"))
    /\ UNCHANGED routed

\* memoryStore.learnFromConversation has raised
LearnThrows(t) ==
    /\ turns[t].pc = "awaitLearn"
    /\ Commit(catch(World(t), [name |-> "Error", message |-> "learnFromConversation failed"]))
    /\ UNCHANGED routed

\* faulty variant of sendFailure: the adapter lets the error out, into the
\* try block of handleMessage
sendFailureRethrown(w) ==
    IF w.tr.pc = "awaitSend"
    THEN catch(w, [name |-> "Error", message |-> "Connection Closed"])
    ELSE [w EXCEPT !.tr.pc = "done"]

\* faulty variant of sendFailure: the failed delivery makes the Turn ask the
\* model again
sendFailureRetrying(w) == callChat([w EXCEPT !.tr.sendFailed = TRUE])

\* WhatsAppChannel.send, lines 113-115: a failing socket.sendMessage is
\* caught and logged by the adapter
sendFailure(w) == [w EXCEPT !.tr.sendFailed = TRUE]

\* socket.sendMessage has failed inside WhatsAppChannel.send
SendFails(t) ==
    /\ turns[t].pc \in {"awaitSend", "awaitSendErr"}
    /\ ~turns[t].sendFailed
    /\ Commit(sendFailure(World(t)))
    /\ UNCHANGED routed

\* WhatsAppChannel.send has returned: delivered, or failed and logged
SendReturns(t) ==
    /\ turns[t].pc \in {"awaitSend", "awaitSendErr"}
    /\ Commit([World(t) EXCEPT !.tr.pc = "done"])
    /\ UNCHANGED routed

\* the file a side-effecting tool saves its record to
FileOf(toolName) ==
    CASE toolName = "create_booking" -> "bookings"
      [] toolName = "take_order" -> "orders"
      [] toolName = "handle_complaint" -> "complaints"

SavingTools == {"create_booking", "take_order", "handle_complaint"}

\* saveBooking / saveOrder / saveComplaint up to the await of fs.writeFile:
\* fs.readFile has returned and the file's array is parsed
FileRead(t) ==
    /\ turns[t].pc = "awaitTool"
    /\ LET toolCall == turns[t].toolCalls.list[turns[t].callIdx]
       IN  /\ toolCall.name \in SavingTools
           /\ ~execute(toolCall.name, toolCall.arguments.value, stores, TRUE,
                       turns[t].calledAt).threw
           /\ Commit([World(t) EXCEPT !.tr.pc = "awaitWrite",
                                      !.tr.fileRead = stores[FileOf(toolCall.name)]])
    /\ UNCHANGED routed

\* fs.writeFile has replaced the file by the array read with the new record
\* pushed; the tool returns and handleMessage goes on, lines 145-157
FileWritten(t) ==
    /\ turns[t].pc = "awaitWrite"
    /\ LET w == World(t)
           toolCall == w.tr.toolCalls.list[w.tr.callIdx]
           toolArgs == toolCall.arguments.value
           file == FileOf(toolCall.name)
           out == execute(toolCall.name, toolArgs,
                          [stores EXCEPT ![file] = w.tr.fileRead], TRUE, w.tr.calledAt)
           ran == [called |-> TRUE, name |-> toolCall.name, args |-> toolArgs,
                   threw |-> out.threw,
                   error |-> IF out.threw THEN out.error ELSE NoError,
                   wrote |-> ~out.threw]
       IN  IF out.threw
           THEN Commit(catch([w EXCEPT !.tr.exec = ran], out.error))
           ELSE Commit(runFor(
                  [w EXCEPT !.stores = out.stores,
                            !.tr.exec = ran,
                            !.tr.fileRead = <<>>,
                            !.tr.callIdx = NextCall(@),
                            !.tr.messages = @ \o ToolMessages(toolCall, out.result)]))
    /\ UNCHANGED routed

\* ---------------------------------------------------------- specifications
\* Turns of several customers, or several messages of one customer, in flight
Next ==
    \E t \in TurnIds :
        \/ \E s \in SessionIds, m \in UserTexts : RouteMessage(t, s, m)
        \/ PrimaryReturns(t, ConcRaw)
        \/ PrimaryFails(t)
        \/ FallbackReturns(t, ConcRaw)
        \/ FallbackFails(t)
        \/ ToolReturns(t)
        \/ LearnReturns(t)
        \/ LearnThrows(t)
        \/ SendFails(t)
        \/ SendReturns(t)

Spec == Init /\ [][Next]_vars

\* One Turn on a fresh process, the model answering anything
NextTurn ==
    \/ \E s \in SessionIds, m \in UserTexts : RouteMessage(1, s, m)
    \/ PrimaryReturns(1, TurnRaw)
    \/ PrimaryFails(1)
    \/ FallbackReturns(1, TurnRaw)
    \/ FallbackFails(1)
    \/ ToolReturns(1)
    \/ LearnReturns(1)
    \/ LearnThrows(1)
    \/ SendFails(1)
    \/ SendReturns(1)

SpecTurn == Init /\ [][NextTurn]_vars

\* One Turn whose every request is answered in the end: the model call and
\* its fallback return or fail, the tool execution settles,
\* learnFromConversation returns or raises, the adapter's send returns. The
\* model answers in plain text, with an empty list of tool calls, with a tool
\* call that succeeds, with one that fails or with malformed arguments; the
\* provider is an OpenAI compatible one with the Ollama fallback set, the
\* setting in which a model call takes the most steps.
FairCallLists == {<<>>, <<menuCall>>, <<menuCall, unknownCall>>, <<malformedCall>>}
FairRaw ==
    [content : {"Your table is booked. Anything else?"},
     tool_calls : {NullCalls} \cup {Calls(l) : l \in FairCallLists}]

InitTurnFair == Init /\ provider = "openrouter" /\ ollamaBaseUrl

NextTurnFair ==
    \/ \E s \in SessionIds, m \in UserTexts : RouteMessage(1, s, m)
    \/ PrimaryReturns(1, FairRaw)
    \/ PrimaryFails(1)
    \/ FallbackReturns(1, FairRaw)
    \/ FallbackFails(1)
    \/ ToolReturns(1)
    \/ LearnReturns(1)
    \/ LearnThrows(1)
    \/ SendFails(1)
    \/ SendReturns(1)

FairTurn ==
    /\ WF_vars(PrimaryReturns(1, FairRaw) \/ PrimaryFails(1))
    /\ WF_vars(FallbackReturns(1, FairRaw) \/ FallbackFails(1))
    /\ WF_vars(ToolReturns(1))
    /\ WF_vars(LearnReturns(1) \/ LearnThrows(1))
    /\ WF_vars(SendReturns(1))

SpecTurnFair == InitTurnFair /\ [][NextTurnFair]_vars /\ FairTurn

\* The gateway as its callers may use it: adapters route messages with the
\* metadata of their choice, sendResponse is also called from outside a
\* Turn, time passes; the model answers in plain text and nothing fails, so
\* the provider settings make no difference and one setting is taken.
MetadataChoices ==
    {[senderName |-> "Thabo"],
     [senderName |-> "Thabo M", senderPhone |-> "1", platform |-> "whatsapp"]}

PlainRaw == [content : {"Your table is booked. Anything else?"}, tool_calls : {NullCalls}]

\* a millisecond passes
Tick ==
    /\ now < MaxClock
    /\ now' = now + 1
    /\ UNCHANGED <<provider, ollamaBaseUrl, sessions, conversations, stores, turns, routed,
                   direct, clients, admin>>

\* an adapter calls Gateway.routeMessage; here the messages come one at a
\* time, each after the Turn of the one before has ended
AdapterRoutes(t, channelName, sessionId, message, metadata) ==
    /\ FreshTurn(t)
    /\ \A u \in TurnIds : turns[u].pc \in {"idle", "done"}
    /\ routeMessage(t, channelName, sessionId, message, metadata)

\* Gateway.sendResponse resolves whether or not the session map has the id
SendOutcome(ss, sessionId) == "resolved"

\* Gateway.sendResponse called from outside a Turn
DirectSend(channelName, sessionId, response) ==
    /\ Len(direct) < MaxDirectSends
    /\ sessions' = SessionsAfterSend(sessions, sessionId, response, now, 0)
    /\ clients' = broadcast(clients, OutgoingEvent(channelName, sessionId, response))
    /\ direct' = Append(direct, [sessionId |-> sessionId,
                                 known |-> sessionId \in DOMAIN sessions,
                                 outcome |-> SendOutcome(sessions, sessionId)])
    /\ UNCHANGED <<provider, ollamaBaseUrl, conversations, stores, turns, routed, now,
                   admin>>

NextGateway ==
    \/ Tick
    \/ \E channelName \in RegisteredChannels, sessionId \in SessionIds :
          DirectSend(channelName, sessionId, "We are closing in ten minutes.")
    \/ \E t \in TurnIds :
          \/ \E channelName \in RegisteredChannels, sessionId \in SessionIds,
                message \in UserTexts,
                metadata \in MetadataChoices :
                AdapterRoutes(t, channelName, sessionId, message, metadata)
          \/ PrimaryReturns(t, PlainRaw)
          \/ LearnReturns(t)
          \/ SendReturns(t)

InitGateway == Init /\ provider = "openrouter" /\ ~ollamaBaseUrl

SpecGateway == InitGateway /\ [][NextGateway]_vars

\* The dashboard: observers connect to the gateway's WebSocket server and
\* leave, an operator injects messages into sessions, customers write on
\* WhatsApp; the model answers in plain text or the provider fails.
Observers == {"o1", "o2"}
AdminTexts == {"Please confirm the booking for table 4."}

\* a client that has just connected
NewClient == [open |-> TRUE, raises |-> FALSE, received |-> 0, last |-> NULL,
              sendRaised |-> FALSE]

\* Gateway.start, lines 18-20: a client connects
Connect(o) ==
    /\ o \notin DOMAIN clients
    /\ clients' = [x \in DOMAIN clients \cup {o} |->
                      IF x = o THEN NewClient ELSE clients[x]]
    /\ UNCHANGED <<provider, ollamaBaseUrl, sessions, conversations, stores, turns, routed,
                   now, direct, admin>>

\* the closing handshake of a client has begun: readyState is CLOSING
Closing(o) ==
    /\ o \in DOMAIN clients
    /\ clients[o].open
    /\ clients' = [clients EXCEPT ![o].open = FALSE]
    /\ UNCHANGED <<provider, ollamaBaseUrl, sessions, conversations, stores, turns, routed,
                   now, direct, admin>>

\* Gateway.start, lines 31-34: the close event of a client
Close(o) ==
    /\ o \in DOMAIN clients
    /\ ~clients[o].open
    /\ clients' = [x \in DOMAIN clients \ {o} |-> clients[x]]
    /\ UNCHANGED <<provider, ollamaBaseUrl, sessions, conversations, stores, turns, routed,
                   now, direct, admin>>

\* from now on send raises on this client although its readyState is OPEN
Breaks(o) ==
    /\ o \in DOMAIN clients
    /\ clients[o].open
    /\ ~clients[o].raises
    /\ clients' = [clients EXCEPT ![o].raises = TRUE]
    /\ UNCHANGED <<provider, ollamaBaseUrl, sessions, conversations, stores, turns, routed,
                   now, direct, admin>>

\* Gateway.handleDashboardMessage, dashboard:sendMessage: admin:message is
\* emitted and AgentRuntime.processAdminMessage starts a run of handleMessage
\* on channel admin when the gateway has the session
AdminMessage(sessionId, message) ==
    /\ Len(admin) < MaxAdminMessages
    /\ admin' = Append(admin, [sessionId |-> sessionId, message |-> message,
                               known |-> sessionId \in DOMAIN sessions])
    /\ IF sessionId \in DOMAIN sessions
       THEN \E t \in TurnIds :
               /\ FreshTurn(t)
               /\ CommitTurn(compose(World(t), "admin", sessionId, message,
                                     [senderName |-> "Admin"]))
       ELSE UNCHANGED <<turns, sessions, conversations, stores, clients>>
    /\ UNCHANGED <<provider, ollamaBaseUrl, routed, now, direct>>

\* one observer is watching from the start
InitDashboard ==
    /\ provider = "openrouter"
    /\ ollamaBaseUrl = FALSE
    /\ sessions = [s \in {} |-> NULL]
    /\ conversations = [s \in SessionIds |-> <<>>]
    /\ stores = EmptyStores
    /\ turns = [t \in TurnIds |-> IdleTurn]
    /\ routed = 0
    /\ now = 0
    /\ direct = <<>>
    /\ clients = [o \in {"o1"} |-> NewClient]
    /\ admin = <<>>

NextDashboard ==
    \/ \E o \in Observers : Closing(o) \/ Close(o)
    \/ \E sessionId \in SessionIds, message \in AdminTexts : AdminMessage(sessionId, message)
    \/ \E t \in TurnIds :
          \/ \E s \in SessionIds, m \in UserTexts : RouteMessage(t, s, m)
          \/ PrimaryReturns(t, PlainRaw)
          \/ PrimaryFails(t)
          \/ LearnReturns(t)
          \/ SendReturns(t)

SpecDashboard == InitDashboard /\ [][NextDashboard]_vars

\* Two Turns of which the first may stall: the requests of the second Turn
\* are answered in the end, those of the first need not be. The model asks
\* for the menu once or answers in plain text; the provider may fail.
menuRaw == [content : {NULL}, tool_calls : {Calls(<<menuCall>>)}]
StallRaw(t) == IF turns[t].rounds = 0 THEN menuRaw \cup PlainRaw ELSE PlainRaw

NextStall ==
    \E t \in {1, 2} :
        \/ \E s \in SessionIds, m \in UserTexts : RouteMessage(t, s, m)
        \/ PrimaryReturns(t, StallRaw(t))
        \/ PrimaryFails(t)
        \/ ToolReturns(t)
        \/ LearnReturns(t)
        \/ SendReturns(t)

FairSecondTurn ==
    /\ WF_vars(PrimaryReturns(2, StallRaw(2)) \/ PrimaryFails(2))
    /\ WF_vars(ToolReturns(2))
    /\ WF_vars(LearnReturns(2))
    /\ WF_vars(SendReturns(2))

SpecStall == InitGateway /\ [][NextStall]_vars /\ FairSecondTurn

\* Customers book tables at the same time: the model asks for create_booking
\* or take_order once and then answers in plain text, the saves of the Turns
\* interleave, time passes.
SavingRaw ==
    [content : {NULL}, tool_calls : {Calls(<<bookingCall>>), Calls(<<pricedOrderCall>>)}]

NextStores ==
    \/ Tick
    \/ \E t \in TurnIds :
          \/ \E s \in SessionIds, m \in UserTexts : RouteMessage(t, s, m)
          \/ PrimaryReturns(t, IF turns[t].rounds = 0 THEN SavingRaw ELSE PlainRaw)
          \/ FileRead(t)
          \/ FileWritten(t)
          \/ LearnReturns(t)
          \/ SendReturns(t)

SpecStores == InitGateway /\ [][NextStores]_vars

\* The side-effecting tools on the inputs a model may give them: one Turn,
\* whose model asks once for create_booking, for handle_complaint (with each
\* urgency, or none) or for take_order (with each list of at most MaxItems items with numeric
\* prices and quantities) and then answers in plain text; the save fails or
\* not, time passes.
Urgencies == {"low", "medium", "high"}
Prices == {0, 25, 95}
Quantities == {1, 2}
Items == [name : {"garlic naan"}, quantity : Quantities, price : Prices]
ItemLists == UNION {[1..n -> Items] : n \in 0..MaxItems}

ComplaintCalls ==
    {[id |-> "call_c1", name |-> "handle_complaint",
      arguments |-> Json([customerName |-> "Jane", issue |-> "cold food"])]}
    \cup {[id |-> "call_c1", name |-> "handle_complaint",
           arguments |-> Json([customerName |-> "Jane", issue |-> "cold food",
                               urgency |-> u])] : u \in Urgencies}
OrderCalls ==
    {[id |-> "call_o1", name |-> "take_order",
      arguments |-> Json([items |-> l, customerName |-> "Jane"])] : l \in ItemLists}

BookingCalls == {[bookingCall EXCEPT !.id = "call_b1"]}

ToolsRaw ==
    [content : {NULL},
     tool_calls : {Calls(<<c>>) : c \in ComplaintCalls \cup OrderCalls \cup BookingCalls}]

NextTools ==
    \/ Tick
    \/ \E s \in SessionIds, m \in UserTexts : RouteMessage(1, s, m)
    \/ PrimaryReturns(1, IF turns[1].rounds = 0 THEN ToolsRaw ELSE PlainRaw)
    \/ ToolReturns(1)
    \/ LearnReturns(1)
    \/ SendReturns(1)

SpecTools == InitGateway /\ [][NextTools]_vars

\* The observers of the gateway come, break and go while customers write,
\* one message at a time.
NextObservers ==
    \/ \E o \in Observers : Connect(o) \/ Closing(o) \/ Close(o) \/ Breaks(o)
    \/ \E t \in TurnIds :
          \/ \E sessionId \in SessionIds, message \in UserTexts :
                AdapterRoutes(t, "whatsapp", sessionId, message,
                              WhatsAppMetadata(sessionId))
          \/ PrimaryReturns(t, PlainRaw)
          \/ LearnReturns(t)
          \/ SendReturns(t)

SpecObservers == InitGateway /\ [][NextObservers]_vars

\* A process that has served one customer for a while: wa_1 has had n Turns,
\* each answered in plain text, and none is in flight.
PastLog(n) ==
    [i \in 1..(2 * n) |->
        IF i % 2 = 1
        THEN [role |-> "user", content |-> "table for 2 tonight", timestamp |-> 0,
              turn |-> 0]
        ELSE [role |-> "assistant", content |-> "Your table is booked. Anything else?",
              timestamp |-> 0, turn |-> 0]]

PastConversation(n) ==
    LastN([i \in 1..(2 * n) |-> [role |-> PastLog(n)[i].role,
                                 content |-> PastLog(n)[i].content]], HistoryCap)

InitRetention ==
    /\ provider \in Providers
    /\ ollamaBaseUrl \in BOOLEAN
    /\ \E n \in (MaxPastTurns - 1)..MaxPastTurns :
          /\ sessions = [s \in {"wa_1"} |->
                            [id |-> s, messages |-> PastLog(n),
                             metadata |-> Spread("whatsapp", WhatsAppMetadata(s)),
                             lastActive |-> 0, customerName |-> "1", createdAt |-> 0]]
          /\ conversations = [s \in SessionIds |->
                                 IF s = "wa_1" THEN PastConversation(n) ELSE <<>>]
    /\ stores = EmptyStores
    /\ turns = [t \in TurnIds |-> IdleTurn]
    /\ routed = 0
    /\ now = 0
    /\ direct = <<>>
    /\ clients = [o \in {} |-> NULL]
    /\ admin = <<>>

NextRetention ==
    \E t \in TurnIds :
        \/ \E s \in SessionIds, m \in UserTexts : RouteMessage(t, s, m)
        \/ PrimaryReturns(t, PlainRaw)
        \/ PrimaryFails(t)
        \/ FallbackReturns(t, PlainRaw)
        \/ FallbackFails(t)
        \/ LearnReturns(t)
        \/ LearnThrows(t)
        \/ SendFails(t)
        \/ SendReturns(t)

SpecRetention == InitRetention /\ [][NextRetention]_vars

\* Customers with a history: wa_1 has had 1, 5, 6 or MaxPastTurns Turns (2,
\* 10, 12 or the retained maximum of messages), wa_2 none; Turns of both run
\* at the same time, the model answers in plain text or the provider fails.
PastTurnCounts == {1, 5, 6, MaxPastTurns}

InitHistory ==
    /\ provider = "openrouter"
    /\ ollamaBaseUrl = FALSE
    /\ stores = EmptyStores
    /\ turns = [t \in TurnIds |-> IdleTurn]
    /\ routed = 0
    /\ now = 0
    /\ direct = <<>>
    /\ clients = [o \in {} |-> NULL]
    /\ admin = <<>>
    /\ \E n \in PastTurnCounts :
          /\ sessions = [s \in {"wa_1"} |->
                            [id |-> s, messages |-> PastLog(n),
                             metadata |-> Spread("whatsapp", WhatsAppMetadata(s)),
                             lastActive |-> 0, customerName |-> "1", createdAt |-> 0]]
          /\ conversations = [s \in SessionIds |->
                                 IF s = "wa_1" THEN PastConversation(n) ELSE <<>>]

NextHistory ==
    \E t \in TurnIds :
        \/ \E s \in SessionIds, m \in UserTexts : RouteMessage(t, s, m)
        \/ PrimaryReturns(t, PlainRaw)
        \/ PrimaryFails(t)
        \/ LearnReturns(t)
        \/ LearnThrows(t)
        \/ SendReturns(t)

SpecHistory == InitHistory /\ [][NextHistory]_vars

\* ------------------------------------------------------------- properties
Started(tr) == tr.pc # "idle"

\* the Turn has reached Finalizing (persist, learn, hand the reply over) or is Done
ReachedFinalizing(tr) == tr.pc \in {"awaitLearn", "awaitSend", "awaitSendErr", "done"}

AlternateConfigured == provider # "ollama" /\ ollamaBaseUrl

\* C1: a later Turn of a session does not begin Composing before the earlier
\* Turn of that session has reached Finalizing.  Composing runs inside
\* routeMessage, so a started later Turn has composed already.
C1_TurnsSerialized ==
    \A t1, t2 \in TurnIds :
        (/\ t1 < t2
         /\ Started(turns[t2])
         /\ turns[t1].sessionId = turns[t2].sessionId)
        => ReachedFinalizing(turns[t1])

\* C2: the message log of every gateway session alternates user, assistant,
\* user, assistant, ..., in append order, with one assistant message per
\* finished Turn.
C2_LogAlternates ==
    \A s \in DOMAIN sessions :
        LET log == sessions[s].messages
        IN  /\ \A i \in 1..Len(log) :
                  log[i].role = IF i % 2 = 1 THEN "user" ELSE "assistant"
            /\ \A t \in TurnIds :
                  (turns[t].pc = "done" /\ turns[t].sessionId = s)
                  => Cardinality({i \in 1..Len(log) :
                                     log[i].role = "assistant" /\ log[i].turn = t}) = 1

\* C3 as claimed: a Turn never issues more than maxToolCalls llm.chat calls.
C3_AtMostMaxToolCallsModelCalls ==
    \A t \in TurnIds : turns[t].llmCalls <= maxToolCalls

\* C3 as amended: a Turn issues at most maxToolCalls + 1 llm.chat calls (the
\* first one and one after each tool round), and once maxToolCalls rounds are
\* completed it finalizes without a further model call or tool execution.
C3_ModelCallsBounded ==
    \A t \in TurnIds :
        /\ turns[t].llmCalls <= maxToolCalls + 1
        /\ turns[t].toolCallCount = maxToolCalls => ReachedFinalizing(turns[t])

\* a Turn whose every answer requested tools has been finalized at the bound
C3_Witness ==
    \E t \in TurnIds :
        /\ turns[t].pc = "awaitSend"
        /\ turns[t].toolCallCount = maxToolCalls
        /\ turns[t].llmCalls = maxToolCalls + 1
        /\ Truthy(turns[t].toolCalls)

\* C4: a Turn executes at most maxToolCalls tool rounds.
C4_RoundsBounded ==
    \A t \in TurnIds : turns[t].rounds <= maxToolCalls /\ turns[t].toolCallCount <= maxToolCalls

\* a tool of the last permitted round is executing
C4_Witness ==
    \E t \in TurnIds : turns[t].pc = "awaitTool" /\ turns[t].rounds = maxToolCalls

\* C5: a text handed to Gateway.sendResponse is never empty or null.
C5_ReplyNeverEmpty ==
    \A t \in TurnIds :
        \A i \in 1..Len(turns[t].replies) : turns[t].replies[i] \notin {"", NULL}

\* the Turn is in its catch block because a tool call named an unregistered
\* tool or carried arguments that are not JSON
ToolFault(tr) ==
    \/ tr.caught.name = "SyntaxError"
    \/ /\ tr.exec.called
       /\ tr.exec.threw
       /\ tr.exec.name \notin RegisteredTools
       /\ tr.caught = tr.exec.error

\* C6: an unregistered tool name or malformed arguments never take the Turn
\* out of the loop into the apology.
C6_ToolFaultRecovered ==
    \A t \in TurnIds :
        ~(ToolFault(turns[t]) /\ \E i \in 1..Len(turns[t].replies) :
                                      turns[t].replies[i] = errorMsg)

\* C7: execute of a registered tool with schema-conformant arguments never
\* raises.
C7_ConformantNeverRaises ==
    \A t \in TurnIds :
        (turns[t].exec.called /\ Conforms(turns[t].exec.name, turns[t].exec.args))
        => ~turns[t].exec.threw

\* C8: execute of an unregistered name ends in the distinguished UnknownTool
\* error and writes no durable store.
C8_UnknownToolDistinguished ==
    \A t \in TurnIds :
        (turns[t].exec.called /\ turns[t].exec.name \notin RegisteredTools)
        => /\ turns[t].exec.threw
           /\ turns[t].exec.error.name = "UnknownTool"
           /\ ~turns[t].exec.wrote

\* C9: one llm.chat call issues at most two provider requests, the second
\* one only after a failed first one and only with an alternate provider
\* configured; a failed call ends the Turn with the apology.
C9_FallbackOnce ==
    \A t \in TurnIds :
        /\ turns[t].requests <= 2
        /\ turns[t].requests = 2 => AlternateConfigured
        /\ turns[t].pc = "awaitFallback" => turns[t].requests = 2
        /\ turns[t].caught = ProviderError
           => /\ turns[t].pc = "awaitSendErr"
              /\ turns[t].replies = <<errorMsg>>
              /\ turns[t].requests = IF AlternateConfigured THEN 2 ELSE 1

\* the fallback request has failed too and the Turn apologises
C9_Witness ==
    \E t \in TurnIds :
        /\ turns[t].caught = ProviderError
        /\ turns[t].requests = 2
        /\ turns[t].pc = "awaitSendErr"

\* C10: when the first model call fails and no alternate provider is
\* configured, the Turn replies with the apology and the session log holds
\* the user's message followed by the apology.
C10_OutageApology ==
    \A t \in TurnIds :
        (/\ turns[t].caught = ProviderError
         /\ turns[t].llmCalls = 1
         /\ ~AlternateConfigured)
        => /\ turns[t].replies = <<errorMsg>>
           /\ turns[t].requests = 1
           /\ turns[t].sessionId \in DOMAIN sessions
           /\ sessions[turns[t].sessionId].messages =
                 <<[role |-> "user", content |-> turns[t].message, timestamp |-> now,
                    turn |-> t],
                   [role |-> "assistant", content |-> errorMsg, timestamp |-> now,
                    turn |-> t]>>

C10_Witness ==
    \E t \in TurnIds :
        /\ turns[t].caught = ProviderError
        /\ turns[t].llmCalls = 1
        /\ ~AlternateConfigured
        /\ turns[t].pc = "awaitSendErr"

\* C11: whichever step of a Turn raises (the model call, the parsing of tool
\* arguments, a tool execution, the learning hook), the catch block hands
\* exactly the fixed apology to Gateway.sendResponse, the text handed over is
\* not the error's own message, and handleMessage goes on to return normally:
\* it waits for the delivery of the apology and a finished Turn has always
\* handed a reply over.
C11_ApologyOnAnyError ==
    \A t \in TurnIds :
        /\ turns[t].caught # NoError
           => /\ turns[t].pc = "awaitSendErr"
              /\ turns[t].replies = <<errorMsg>>
              /\ \A i \in 1..Len(turns[t].replies) :
                    turns[t].replies[i] # turns[t].caught.message
              /\ turns[t].sessionId \in DOMAIN sessions
              /\ LET log == sessions[turns[t].sessionId].messages
                 IN  /\ Len(log) > 0
                     /\ log[Len(log)].role = "assistant"
                     /\ log[Len(log)].content = errorMsg
        /\ turns[t].pc = "done" => Len(turns[t].replies) >= 1

\* the learning hook has raised after the reply was saved to the history
C11_Witness ==
    \E t \in TurnIds :
        /\ turns[t].caught.message = "learnFromConversation failed"
        /\ turns[t].pc = "awaitSendErr"
        /\ Len(conversations[turns[t].sessionId]) = 2

IsPrefix(a, b) == Len(a) <= Len(b) /\ SubSeq(b, 1, Len(a)) = a

Running(tr) == IF tr.pc = "awaitTool" THEN tr.callIdx ELSE 0

\* C13: a Turn has at most one tool execution in progress, and the
\* executions follow the emitted order: the first invocation of a response
\* is started by the step in which the model's response arrives, and
\* invocation i+1 is started by the step in which the execution of
\* invocation i returns and its result is pushed; the model is asked again
\* only by the step in which the last invocation returns.
C13_ToolsSequential ==
    [][\A t \in TurnIds :
          LET old == turns[t]
              new == turns'[t]
          IN  /\ (Running(old) # 0 /\ new.pc = "awaitPrimary")
                 => Running(old) = Len(old.toolCalls.list)
              /\ (Running(new) # 0 /\ Running(new) # Running(old))
                 =>
                 /\ Running(new) \in 1..Len(new.toolCalls.list)
                 /\ \/ /\ Running(new) = 1
                       /\ old.pc \in {"awaitPrimary", "awaitFallback"}
                    \/ /\ Running(old) # 0
                       /\ Running(new) = Running(old) + 1
                       /\ new.toolCalls = old.toolCalls
                       /\ new.messages =
                             old.messages \o
                             ToolMessages(old.toolCalls.list[Running(old)],
                                          new.messages[Len(new.messages)].content)]_vars

\* the second invocation of a response is being executed
C13_Witness ==
    \E t \in TurnIds :
        /\ turns[t].pc = "awaitTool"
        /\ turns[t].callIdx = 2
        /\ Len(turns[t].toolCalls.list) = 2

\* the model is being asked for the next step of Turn t, after a tool round
AskedAgain(tr) == tr.pc \in {"awaitPrimary", "awaitFallback"} /\ tr.inLoop

\* C14: whenever the model is asked for its next step inside a Turn, the
\* message list ends with one pair of messages per ToolInvocation emitted so
\* far, in emitted order: the assistant message holding that tool call, then
\* the tool message answering it; no other message of the list is a tool
\* call or a tool result, so no result is missing and none is duplicated.
C14_EveryInvocationAnswered ==
    \A t \in TurnIds :
        AskedAgain(turns[t])
        => LET msgs == turns[t].messages
               n == Len(turns[t].emitted)
               b == Len(msgs) - 2 * n
           IN  /\ b >= 0
               /\ \A i \in 1..n :
                     /\ msgs[b + 2 * i - 1].role = "assistant"
                     /\ "tool_calls" \in DOMAIN msgs[b + 2 * i - 1]
                     /\ msgs[b + 2 * i - 1].tool_calls = <<turns[t].emitted[i]>>
                     /\ msgs[b + 2 * i].role = "tool"
                     /\ msgs[b + 2 * i].tool_call_id = ToolCallId(turns[t].emitted[i])
               /\ \A j \in 1..b :
                     /\ msgs[j].role # "tool"
                     /\ "tool_calls" \notin DOMAIN msgs[j]

\* the model is asked again after two rounds that emitted three invocations
C14_Witness ==
    \E t \in TurnIds :
        /\ AskedAgain(turns[t])
        /\ turns[t].rounds = 2
        /\ Len(turns[t].emitted) = 3

\* the tool messages of Turn t's message list, as positions, and the
\* invocation each of them answers (the tool call of the assistant message
\* pushed just before it)
ToolMessagePositions(tr) == {i \in 2..Len(tr.messages) : tr.messages[i].role = "tool"}
InvocationAt(tr, i) == tr.messages[i - 1].tool_calls[1]

\* the provider gave the two invocations different ids, or left an id out
DistinctAsEmitted(a, b) == a.id = NULL \/ b.id = NULL \/ a.id # b.id

\* C15: each tool message carries the callId of the invocation it answers,
\* and two invocations of one Turn that the provider did not itself give the
\* same id have different callIds, also when the id is left out and the
\* runtime derives one from the tool name.
C15_CallIdsUnique ==
    \A t \in TurnIds :
        \A i \in ToolMessagePositions(turns[t]) :
            /\ InvocationAt(turns[t], i).id # NULL
               => turns[t].messages[i].tool_call_id = InvocationAt(turns[t], i).id
            /\ \A j \in ToolMessagePositions(turns[t]) :
                  (i # j /\ DistinctAsEmitted(InvocationAt(turns[t], i),
                                              InvocationAt(turns[t], j)))
                  => turns[t].messages[i].tool_call_id # turns[t].messages[j].tool_call_id

\* the assistant messages that Turn t has caused in the gateway session
AssistantEntries(t) ==
    IF turns[t].sessionId \in DOMAIN sessions
    THEN {i \in 1..Len(sessions[turns[t].sessionId].messages) :
             /\ sessions[turns[t].sessionId].messages[i].role = "assistant"
             /\ sessions[turns[t].sessionId].messages[i].turn = t}
    ELSE {}

\* C16: a run of handleMessage never causes a second assistant message in
\* the gateway session nor a second adapter send, and once it has handed its
\* reply over (the adapter's send is pending, has failed, or the run is
\* over) the session holds exactly one assistant message of that run.
C16_OneReplyPerTurn ==
    \A t \in TurnIds :
        /\ Cardinality(AssistantEntries(t)) <= 1
        /\ turns[t].sends <= 1
        /\ turns[t].pc \in {"awaitSend", "awaitSendErr", "done"}
           => Cardinality(AssistantEntries(t)) = 1

\* the adapter's send has failed
C16_Witness ==
    \E t \in TurnIds :
        /\ turns[t].sendFailed
        /\ turns[t].pc = "awaitSend"
        /\ turns[t].sends = 1

\* C18: a step never replaces or resets a session of the map: the session
\* stays in the map with its id and its createdAt, and with every message it
\* held, in the same order, at the front of its message list.
C18_SessionKept ==
    [][\A s \in DOMAIN sessions :
          /\ s \in DOMAIN sessions'
          /\ sessions'[s].id = sessions[s].id
          /\ sessions'[s].createdAt = sessions[s].createdAt
          /\ IsPrefix(sessions[s].messages, sessions'[s].messages)]_vars

\* routeMessage has been called for a session created earlier
C18_Witness ==
    \E s \in DOMAIN sessions :
        /\ sessions[s].lastActive > sessions[s].createdAt
        /\ \E i, j \in 1..Len(sessions[s].messages) :
              /\ i < j
              /\ sessions[s].messages[i].role = "user"
              /\ sessions[s].messages[j].role = "user"

\* the metadata of an existing session after the keys it lacks are merged in:
\* the keys it has keep their values
Merged(old, metadata) ==
    [k \in DOMAIN old \cup DOMAIN metadata |->
        IF k \in DOMAIN old THEN old[k] ELSE metadata[k]]

\* C19: when routeMessage is called for a session that exists, the keys of
\* the call's metadata that the session lacks are added to the session's
\* metadata and the keys the session has keep their values.
C19_MetadataMerged ==
    [][routed' # routed
       => LET t == routed'
              s == turns'[t].sessionId
          IN  s \in DOMAIN sessions
              => sessions'[s].metadata = Merged(sessions[s].metadata, turns'[t].metadata)]_vars

\* C20: a Gateway.sendResponse call for an id that the session map does not
\* hold reports UnknownSession, and creates no session: every session of the
\* map was created by routeMessage and begins with a user message.
C20_UnknownSessionReported ==
    /\ \A i \in 1..Len(direct) :
          ~direct[i].known => direct[i].outcome = "UnknownSession"
    /\ \A s \in DOMAIN sessions : /\ Len(sessions[s].messages) > 0
                                  /\ sessions[s].messages[1].role = "user"

\* C17: every session's message log in the gateway holds at most 50
\* messages, whatever routeMessage and sendResponse calls were made.
C17_RetentionCap ==
    \A s \in DOMAIN sessions : Len(sessions[s].messages) <= HistoryCap

\* Turn t calls Gateway.sendResponse in this step
CallsSendResponse(t) == Len(turns'[t].replies) = Len(turns[t].replies) + 1

\* C21: when a Turn whose channel has no registered adapter calls
\* Gateway.sendResponse, the call appends the assistant message to the
\* session, every open observer is sent the outgoing event, no adapter send
\* is made and the call completes at once, without an error.
C21_NoAdapterStillRecorded ==
    [][\A t \in TurnIds :
          (CallsSendResponse(t) /\ turns'[t].channelName \notin RegisteredChannels)
          => LET s == turns'[t].sessionId
                 reply == turns'[t].replies[Len(turns'[t].replies)]
             IN  /\ s \in DOMAIN sessions
                 /\ sessions'[s].messages =
                       Append(sessions[s].messages,
                              [role |-> "assistant", content |-> reply,
                               timestamp |-> now, turn |-> t])
                 /\ \A o \in DOMAIN clients :
                       (clients[o].open /\ ~clients[o].raises)
                       => /\ clients'[o].received = clients[o].received + 1
                          /\ clients'[o].last = OutgoingEvent(turns'[t].channelName, s, reply)
                 /\ turns'[t].sends = 0
                 /\ turns'[t].pc = "done"
                 /\ turns[t].caught = NoError => turns'[t].replies = <<reply>>]_vars

\* an admin Turn has replied while an observer was watching
C21_Witness ==
    \E t \in TurnIds, o \in DOMAIN clients :
        /\ turns[t].channelName = "admin"
        /\ turns[t].pc = "done"
        /\ turns[t].sends = 0
        /\ Len(turns[t].replies) > 0
        /\ clients[o].received > 0
        /\ clients[o].last = OutgoingEvent("admin", turns[t].sessionId, turns[t].replies[1])

\* the latest reply of Turn t is in the log of its session
ReplyRecorded(t) ==
    /\ turns[t].sessionId \in DOMAIN sessions
    /\ Len(turns[t].replies) > 0
    /\ \E i \in 1..Len(sessions[turns[t].sessionId].messages) :
          LET entry == sessions[turns[t].sessionId].messages[i]
          IN  /\ entry.role = "assistant"
              /\ entry.turn = t
              /\ entry.content = turns[t].replies[Len(turns[t].replies)]

\* C22: while the adapter's send of a Turn is pending, and after it has
\* failed, the reply is already in the session's log; after a failed send the
\* Turn does nothing but return: no model call, no tool execution, no second
\* send, and the stores, the log and the history stay as they are.
C22_RecordedBeforeSend ==
    [][\A t \in TurnIds :
          /\ turns[t].pc \in {"awaitSend", "awaitSendErr"} => ReplyRecorded(t)
          /\ turns[t].sendFailed
             => /\ turns[t].pc \in {"awaitSend", "awaitSendErr"}
                /\ turns[t].sends = 1
                /\ \/ turns'[t] = turns[t]
                   \/ /\ turns'[t].pc = "done"
                      /\ turns'[t].replies = turns[t].replies
                      /\ turns'[t].sends = turns[t].sends
                      /\ sessions' = sessions
                      /\ conversations' = conversations
                      /\ stores' = stores]_vars

\* the delivery of a reply that followed a tool round has failed
C22_Witness ==
    \E t \in TurnIds :
        /\ turns[t].sendFailed
        /\ turns[t].rounds >= 1
        /\ turns[t].caught = NoError
        /\ ReplyRecorded(t)

\* a step of Gateway.routeMessage or Gateway.sendResponse: a message is
\* pushed and an event is broadcast
Broadcasts == sessions' # sessions

\* C23: a broadcast sends the event to every connected open observer whose
\* send works, and an observer whose send raises is no longer connected
\* after the broadcast.
C23_FailingObserverDropped ==
    [][Broadcasts
       => \A o \in DOMAIN clients :
             /\ (clients[o].open /\ ~clients[o].raises)
                => /\ o \in DOMAIN clients'
                   /\ clients'[o].received = clients[o].received + 1
             /\ (clients[o].open /\ clients[o].raises) => o \notin DOMAIN clients']_vars

\* the position of the user message of Turn t in the log of its session, 0
\* when the log has none
UserEntry(t) ==
    IF turns[t].sessionId \in DOMAIN sessions
       /\ \E i \in 1..Len(sessions[turns[t].sessionId].messages) :
             /\ sessions[turns[t].sessionId].messages[i].role = "user"
             /\ sessions[turns[t].sessionId].messages[i].turn = t
    THEN CHOOSE i \in 1..Len(sessions[turns[t].sessionId].messages) :
             /\ sessions[turns[t].sessionId].messages[i].role = "user"
             /\ sessions[turns[t].sessionId].messages[i].turn = t
    ELSE 0

Routed(t) == Started(turns[t]) /\ turns[t].channelName \in RegisteredChannels

\* C24: a call of Gateway.routeMessage starts one run of handleMessage, for
\* the message of the call, in the step of the call, after the user message
\* was pushed to the end of the session's log and the incoming event was
\* sent to the open observers; so the runs for one session are started in the
\* order of the calls, which is the order of their user messages in the log.
C24_HandedOverInOrder ==
    [][/\ \A t, u \in TurnIds :
             (Routed(t) /\ Routed(u) /\ t < u /\ turns[t].sessionId = turns[u].sessionId)
             => (0 < UserEntry(t) /\ UserEntry(t) < UserEntry(u))
       /\ routed' = routed + 1
          => \E t \in TurnIds :
                LET s == turns'[t].sessionId
                    log == sessions'[s].messages
                IN  /\ turns[t].pc = "idle"
                    /\ turns'[t].pc = "awaitPrimary"
                    /\ \A u \in TurnIds : (u # t => turns'[u] = turns[u])
                                          /\ (u < t => Started(turns[u]))
                    /\ s \in DOMAIN sessions'
                    /\ Len(log) > 0
                    /\ log[Len(log)] = [role |-> "user", content |-> turns'[t].message,
                                        timestamp |-> now, turn |-> t]
                    /\ s \in DOMAIN sessions =>
                          SubSeq(log, 1, Len(log) - 1) = sessions[s].messages
                    /\ turns'[t].messages[Len(turns'[t].messages)] =
                          [role |-> "user", content |-> turns'[t].message]
                    /\ \A o \in DOMAIN clients :
                          clients[o].open
                          => clients'[o].last =
                                IncomingEvent(turns'[t].channelName, s, turns'[t].message)]_vars

\* two messages of one session have been routed and both Turns are in flight
C24_Witness ==
    \E t, u \in TurnIds :
        /\ t < u
        /\ Routed(t) /\ Routed(u)
        /\ turns[t].sessionId = turns[u].sessionId
        /\ turns[t].pc = "awaitPrimary"
        /\ turns[u].pc = "awaitPrimary"
        /\ \E o \in DOMAIN clients : clients[o].received = 2

\* C25: after each routeMessage and each sendResponse, the session's
\* lastActive is at least the timestamp of the message just appended, the
\* last one of its log.
C25_LastActiveFollowsLog ==
    \A s \in DOMAIN sessions :
        Len(sessions[s].messages) > 0
        => sessions[s].lastActive >= sessions[s].messages[Len(sessions[s].messages)].timestamp

\* the records the side-effecting tools have stored, of all kinds
StoreNames == {"bookings", "orders", "complaints", "escalations"}

\* C26: the ids of the stored records of one kind are pairwise distinct,
\* also when two tools were executed within the same millisecond.
C26_IdsUnique ==
    \A k \in StoreNames :
        \A i, j \in 1..Len(stores[k]) :
            i # j => stores[k][i].id # stores[k][j].id

\* C27: whatever the interleaving of the tool executions of concurrent
\* Turns, a record that a successful create_booking or take_order has stored
\* stays in its file: no step removes or overwrites it.
C27_NoRecordLost ==
    [][\A k \in {"bookings", "orders"} :
          /\ Len(stores'[k]) >= Len(stores[k])
          /\ \A i \in 1..Len(stores[k]) :
                \E j \in 1..Len(stores'[k]) : stores'[k][j] = stores[k][i]]_vars

\* the tool call a Turn is executing, and the step in which it returns
CallInFlight(t) == turns[t].toolCalls.list[turns[t].callIdx]
ToolReturned(t, toolName) ==
    /\ turns[t].pc = "awaitTool"
    /\ turns'[t].pc # "awaitTool"
    /\ CallInFlight(t).name = toolName
    /\ Len(turns'[t].messages) > 0
    /\ turns'[t].messages[Len(turns'[t].messages)].role = "tool"
\* the ToolResult handed back to handleMessage in that step
ResultOf(t) == turns'[t].messages[Len(turns'[t].messages)].content

\* C28: when handle_complaint returns its result, the complaint is in the
\* complaints store with status open; with urgency high escalate has run
\* and the result's message states the escalation, with any other urgency
\* escalate has not run.
C28_ComplaintRecordedThenEscalated ==
    [][\A t \in TurnIds :
          ToolReturned(t, "handle_complaint") =>
              LET args == CallInFlight(t).arguments.value
                  high == "urgency" \in DOMAIN args /\ args.urgency = "high"
                  result == ResultOf(t)
              IN  /\ result.success
                  /\ result.data.status = "open"
                  /\ stores'.complaints = Append(stores.complaints, result.data)
                  /\ IF high
                     THEN /\ Len(stores'.escalations) = Len(stores.escalations) + 1
                          /\ result.message = "escalated to management"
                     ELSE /\ stores'.escalations = stores.escalations
                          /\ result.message # "escalated to management"]_vars

\* the same with the complaint stored only when its file could be written
ComplaintEscalatedByUrgency ==
    [][\A t \in TurnIds :
          ToolReturned(t, "handle_complaint") =>
              LET args == CallInFlight(t).arguments.value
                  high == "urgency" \in DOMAIN args /\ args.urgency = "high"
                  result == ResultOf(t)
              IN  /\ result.success
                  /\ result.data.status = "open"
                  /\ stores'.complaints \in {stores.complaints,
                                             Append(stores.complaints, result.data)}
                  /\ IF high
                     THEN /\ Len(stores'.escalations) = Len(stores.escalations) + 1
                          /\ result.message = "escalated to management"
                     ELSE /\ stores'.escalations = stores.escalations
                          /\ result.message # "escalated to management"]_vars

\* the sum of unit price times quantity over a list of items
RECURSIVE SumOfProducts(_)
SumOfProducts(items) ==
    IF items = <<>> THEN 0
    ELSE Head(items).price * Head(items).quantity + SumOfProducts(Tail(items))

\* C29: when take_order returns, each line of the order carries unit price
\* times quantity as its total, the order's total is the sum of the line
\* totals, and the order stored in that step has the id and the total of the
\* order in the result.
C29_OrderTotals ==
    [][\A t \in TurnIds :
          ToolReturned(t, "take_order") =>
              LET items == CallInFlight(t).arguments.value.items
                  order == ResultOf(t).data
              IN  /\ ResultOf(t).success
                  /\ Len(order.items) = Len(items)
                  /\ \A i \in 1..Len(items) :
                        /\ order.items[i].price = items[i].price
                        /\ order.items[i].quantity = items[i].quantity
                        /\ order.items[i].total = items[i].price * items[i].quantity
                  /\ order.total = SumOfProducts(items)
                  /\ Len(stores'.orders) \in {Len(stores.orders), Len(stores.orders) + 1}
                  /\ \A j \in 1..Len(stores'.orders) :
                        j > Len(stores.orders)
                        => /\ stores'.orders[j].id = order.id
                           /\ stores'.orders[j].total = order.total
                           /\ stores'.orders[j].items = order.items]_vars

\* an order of two lines, 2 x 95 and 1 x 25, is stored with the total 215
C29_Witness ==
    /\ turns[1].exec.called
    /\ turns[1].exec.name = "take_order"
    /\ turns[1].exec.wrote
    /\ Len(stores.orders) = 1
    /\ Len(stores.orders[1].items) = 2
    /\ stores.orders[1].items[1].quantity = 2
    /\ stores.orders[1].items[1].price = 95
    /\ stores.orders[1].items[2].quantity = 1
    /\ stores.orders[1].items[2].price = 25
    /\ stores.orders[1].total = 215

\* the Turns run for a message injected by the operator that have ended
AdminTurnDone(t) == turns[t].pc = "done" /\ turns[t].channelName = "admin"

\* the log of the session holds the injected message of Turn t as a user
\* Message and, after it, exactly one assistant Message of that Turn
AdminTurnRecorded(t) ==
    LET log == sessions[turns[t].sessionId].messages
        replies == {j \in 1..Len(log) : log[j].role = "assistant" /\ log[j].turn = t}
    IN  /\ Cardinality(replies) = 1
        /\ \E i \in 1..Len(log) :
              /\ log[i].role = "user"
              /\ log[i].content = turns[t].message
              /\ log[i].turn = t
              /\ \A j \in replies : i < j

\* the session's log holds exactly one assistant Message of the admin Turn t
AdminReplyRecorded(t) ==
    LET log == sessions[turns[t].sessionId].messages
    IN  Cardinality({j \in 1..Len(log) : log[j].role = "assistant" /\ log[j].turn = t}) = 1

\* a message injected for a session the gateway does not have starts no Turn
\* and creates no session
UnknownSessionIgnored ==
    (Len(admin') > Len(admin) /\ ~admin'[Len(admin')].known)
    => /\ UNCHANGED <<sessions, turns, conversations, clients>>
       /\ admin'[Len(admin')].sessionId \notin DOMAIN sessions'

\* C30: a message injected by the operator for an existing session is in
\* that session's log as a user Message, followed by exactly one assistant
\* reply, once its Turn has ended; injected for a session that does not
\* exist it starts no Turn and creates no session.
C30_AdminTurnInLog ==
    [][/\ \A t \in TurnIds : AdminTurnDone(t)' => AdminTurnRecorded(t)'
       /\ UnknownSessionIgnored]_vars

\* the part that holds: the reply of the admin Turn is recorded once, and an
\* unknown session is left alone
AdminReplyInLog ==
    [][/\ \A t \in TurnIds : AdminTurnDone(t)' => AdminReplyRecorded(t)'
       /\ UnknownSessionIgnored]_vars

\* C31: the reply of an admin Turn that has ended was sent through an
\* adapter exactly when an adapter is registered for the channel the session
\* was created through.
C31_AdminReplyDelivered ==
    \A t \in TurnIds :
        AdminTurnDone(t)
        => LET original == sessions[turns[t].sessionId].metadata.channel
           IN  IF original \in RegisteredChannels
               THEN turns[t].sends = 1
               ELSE turns[t].sends = 0

\* handleMessage starts for Turn t in this step
Composes(t) == turns[t].pc = "idle" /\ turns'[t].pc # "idle"

\* C32: the message list a Turn starts with is the system message, then the
\* last 10 messages (all of them when there are fewer) of the session's
\* conversation history as it was stored by earlier Turns, oldest first,
\* then the new user message as its last element; the history is not
\* touched by composing, so the new message is in the list only once, at
\* the end.
C32_ComposedList ==
    [][\A t \in TurnIds :
          Composes(t) =>
              LET conv == conversations[turns'[t].sessionId]
                  n == Len(conv)
                  k == IF n < 10 THEN n ELSE 10
                  msgs == turns'[t].messages
              IN  /\ turns'[t].llmCalls = 1
                  /\ Len(msgs) = k + 2
                  /\ msgs[1].role = "system"
                  /\ \A i \in 1..k :
                        msgs[1 + i] = [role |-> conv[n - k + i].role,
                                       content |-> conv[n - k + i].content]
                  /\ msgs[k + 2] = [role |-> "user", content |-> turns'[t].message]
                  /\ conversations' = conversations]_vars

\* a Turn of a customer with more than 10 messages of history has started
C32_Witness ==
    \E t \in TurnIds :
        /\ turns[t].pc = "awaitPrimary"
        /\ turns[t].llmCalls = 1
        /\ Len(conversations[turns[t].sessionId]) > 10
        /\ Len(turns[t].messages) = 12
        /\ turns[t].messages[2].role = "user"

\* a llm.chat call of Turn t has returned a response in this step
Answered(t) ==
    /\ turns[t].pc \in {"awaitPrimary", "awaitFallback"}
    /\ \/ turns'[t].inLoop # turns[t].inLoop
       \/ turns'[t].toolCallCount # turns[t].toolCallCount

\* Turn t goes to Finalizing with the response's content as its reply: no
\* tool runs, no further model call is made
FinalizesAtOnce(t) ==
    /\ turns'[t].pc \in {"awaitLearn", "awaitSend"}
    /\ turns'[t].llmCalls = turns[t].llmCalls
    /\ turns'[t].exec = turns[t].exec
    /\ stores' = stores
    /\ LET conv == conversations'[turns[t].sessionId]
       IN  /\ Len(conv) > 0
           /\ conv[Len(conv)] = [role |-> "assistant", content |-> turns'[t].finalResponse]

\* C33: a model response without tool invocations (toolCalls null or an
\* empty list) takes the Turn directly to Finalizing with the response's
\* content as the reply; no tool is executed and no further model call is
\* issued.
C33_NoInvocationsFinalizes ==
    [][\A t \in TurnIds :
          (Answered(t) /\ turns'[t].toolCalls.list = <<>>) => FinalizesAtOnce(t)]_vars

\* the same for a response whose toolCalls is null
NullCallsFinalize ==
    [][\A t \in TurnIds :
          (Answered(t) /\ turns'[t].toolCalls.isNull) => FinalizesAtOnce(t)]_vars

\* the states of a Turn
AwaitingModel(tr) == tr.pc \in {"awaitPrimary", "awaitFallback"}
ExecutingTools(tr) == tr.pc = "awaitTool"
Finalizing(tr) == tr.pc \in {"awaitLearn", "awaitSend", "awaitSendErr"}
Done(tr) == tr.pc = "done"

\* the steps of a Turn go forward only: Composing ends in AwaitingModel, a
\* model answer leads to ExecutingTools or Finalizing, the tools to the
\* model again (or, with an error caught, to Finalizing with the apology),
\* Finalizing to Done, and Done is left by nothing; a Turn is Done only with
\* a reply handed to Gateway.sendResponse.
TurnOrder(old, new) ==
    /\ old.pc = "idle" => new.pc = "idle" \/ AwaitingModel(new)
    /\ AwaitingModel(old) => AwaitingModel(new) \/ ExecutingTools(new) \/ Finalizing(new)
    /\ ExecutingTools(old) =>
          \/ ExecutingTools(new)
          \/ AwaitingModel(new)
          \/ new.pc = "awaitSendErr" /\ new.caught # NoError
    /\ Finalizing(old) => Finalizing(new) \/ Done(new)
    /\ Done(old) => Done(new)
    /\ Done(new) => Len(new.replies) > 0

C34_WitnessRounds == ExecutingTools(turns[1]) /\ turns[1].rounds = maxToolCalls
Stalled(tr) == AwaitingModel(tr) \/ ExecutingTools(tr)

\* C35: a Turn that waits for its model call or its tool execution has sent
\* no reply, and nothing but the return of that call moves it: the steps of
\* other Turns leave it as it is. While the first Turn waits, for ever if
\* its call never returns, a second Turn of the same or of another session
\* that has started runs to Done.
C35_StalledTurnBlocksNobody ==
    /\ [](\A t \in TurnIds :
             Stalled(turns[t]) => turns[t].replies = <<>> /\ turns[t].sends = 0)
    /\ [][\A t, u \in TurnIds :
             (t # u /\ Stalled(turns[t]) /\ turns'[u] # turns[u])
             => turns'[t] = turns[t]]_vars
    /\ Started(turns[2]) ~> Done(turns[2])

\* the second Turn is Done, in the session of the first Turn and in another
\* one, while the first Turn still waits for its first model call
C35_WitnessSameSession ==
    /\ turns[1].pc = "awaitPrimary" /\ turns[1].llmCalls = 1
    /\ Done(turns[2])
    /\ turns[2].sessionId = turns[1].sessionId
    /\ turns[2].replies = <<"Your table is booked. Anything else?">>
C35_Witness ==
    /\ ExecutingTools(turns[1])
    /\ Done(turns[2])
    /\ turns[2].sessionId # turns[1].sessionId
    /\ turns[2].replies = <<"Your table is booked. Anything else?">>

\* C36: when create_booking, take_order or handle_complaint returns a result
\* with success = true, the record of the result has been appended to the
\* tool's store in that step.
C36_SuccessMeansStored ==
    [][\A t \in TurnIds, toolName \in SavingTools :
          (ToolReturned(t, toolName) /\ ResultOf(t).success)
          => stores'[FileOf(toolName)] =
                Append(stores[FileOf(toolName)], ResultOf(t).data)]_vars

\* the text recorded as the assistant Message of Turn t in the gateway
\* session, which is also the text handed to the adapter
RecordedReplies(t) ==
    LET log == sessions[turns[t].sessionId].messages
    IN  {log[i].content : i \in {j \in 1..Len(log) : log[j].role = "assistant"
                                                      /\ log[j].turn = t}}

\* C37: once the Turn is Done, the reply of its exchange in the runtime's
\* conversation history, if it has stored one, is the text recorded in the
\* gateway session and sent to the customer; this holds for a Turn that
\* ended with the apology as well. (One Turn on an empty history: the
\* exchange of the Turn is the whole history of its session.)
C37_HistoryMatchesReply ==
    Done(turns[1]) =>
        LET conv == conversations[turns[1].sessionId]
        IN  /\ RecordedReplies(1) = {turns[1].replies[1]}
            /\ Len(conv) > 0 => conv[Len(conv)].content = turns[1].replies[1]

\* the same for the Turns that end without the apology, which do store
\* their exchange
HistoryMatchesModelReply ==
    (Done(turns[1]) /\ turns[1].replies[1] # errorMsg) =>
        /\ RecordedReplies(1) = {turns[1].replies[1]}
        /\ conversations[turns[1].sessionId] =
              <<[role |-> "user", content |-> turns[1].message],
                [role |-> "assistant", content |-> turns[1].replies[1]]>>

\* C38: every conversation history of the runtime has an even length of at
\* most 50 and alternates user, assistant, beginning with a user message;
\* the history window in the message list of a Turn in flight (which
\* follows the system message) begins with a user message.
C38_HistoryAlternates ==
    /\ \A s \in DOMAIN conversations :
          LET conv == conversations[s]
          IN  /\ Len(conv) % 2 = 0
              /\ Len(conv) <= 50
              /\ \A i \in 1..Len(conv) :
                    conv[i].role = IF i % 2 = 1 THEN "user" ELSE "assistant"
    /\ \A t \in TurnIds :
          (Started(turns[t]) /\ ~Done(turns[t]))
          => /\ Len(turns[t].messages) >= 2
             /\ Len(turns[t].messages) <= 12 + 2 * Len(turns[t].emitted)
             /\ turns[t].messages[2].role = "user"

\* two Turns of the customer with a full history have stored their
\* exchanges, so the history has been cut, and it is full again
C38_Witness ==
    /\ \A t \in {1, 2} :
          /\ Done(turns[t])
          /\ turns[t].sessionId = "wa_1"
          /\ turns[t].replies = <<"Your table is booked. Anything else?">>
    /\ Len(sessions["wa_1"].messages) >= 50
    /\ Len(conversations["wa_1"]) = 50

\* the gateway session and the conversation history of session s are the
\* same before and after the step
SessionUntouched(s) ==
    /\ conversations'[s] = conversations[s]
    /\ (s \in DOMAIN sessions') = (s \in DOMAIN sessions)
    /\ s \in DOMAIN sessions => sessions'[s] = sessions[s]

\* C39: a step of a Turn for session A leaves the other Turns, the gateway
\* sessions and the conversation histories of the other sessions as they
\* are; the Turn keeps its session and channel; the history in its message
\* list is taken from A's conversation history alone; its reply is appended
\* to A's gateway session, under A's channel and id.
C39_SessionsIsolated ==
    [][\A t \in TurnIds :
          turns'[t] # turns[t] =>
              LET A == turns'[t].sessionId
                  msgs == turns'[t].messages
                  conv == conversations[A]
              IN  /\ \A u \in TurnIds \ {t} : turns'[u] = turns[u]
                  /\ \A s \in SessionIds \ {A} : SessionUntouched(s)
                  /\ Started(turns[t])
                     => /\ turns[t].sessionId = A
                        /\ turns'[t].channelName = turns[t].channelName
                  /\ Composes(t)
                     => /\ Len(msgs) >= 2
                        /\ Len(msgs) - 2 <= Len(conv)
                        /\ \A i \in 1..(Len(msgs) - 2) :
                              LET m == conv[Len(conv) - (Len(msgs) - 2) + i]
                              IN  msgs[1 + i] = [role |-> m.role, content |-> m.content]
                        /\ Len(conv) = 0 => Len(msgs) = 2
                  /\ CallsSendResponse(t)
                     => /\ A \in DOMAIN sessions
                        /\ sessions'[A].messages =
                              Append(sessions[A].messages,
                                     [role |-> "assistant",
                                      content |-> turns'[t].replies[Len(turns'[t].replies)],
                                      timestamp |-> now, turn |-> t])]_vars

\* a Turn of the customer without history waits for the model with nothing
\* but the system message and its own message, while a Turn of the customer
\* with a long history, started later, is Done
C39_Witness ==
    /\ turns[1].sessionId = "wa_2"
    /\ turns[1].pc = "awaitPrimary"
    /\ Len(turns[1].messages) = 2
    /\ turns[2].sessionId = "wa_1"
    /\ Done(turns[2])
    /\ Len(conversations["wa_1"]) >= 12
    /\ Len(conversations["wa_2"]) = 0

====
